---- MODULE Spec2Model ----
(***************************************************************************)
(* Model of the agent team runner: the turn selector (custom_selector),    *)
(* one team cycle (run_team_cycle, driven by SelectorGroupChat) and the    *)
(* context-reset / rate-limit loop of main().                              *)
(***************************************************************************)
EXTENDS Integers, Sequences, FiniteSets, TLC

VARIABLES
    pc,           \* position of main(): loop, cycle, returned, except, sleeping, exit, done, crashed
    messages,     \* the message thread of the running cycle (<<>> outside a cycle)
    turns,        \* turns the group chat has completed in the running cycle
    result,       \* stop reason of the TaskResult returned by team.run, or NoResult
    reset_count,  \* main(): reset_count
    exc,          \* the exception raised out of run_team_cycle, or NoExc
    sleepFor,     \* argument of the time.sleep call main() is blocked in, 0 if none
    status,       \* the last outcome line main() printed
    cycles,       \* number of calls of run_team_cycle so far
    resetCycles,  \* number of those calls that followed a context reset
    cause,        \* why the loop is at its top: first, rate, reset
    selected,     \* value returned by the last call of custom_selector
    failures,     \* number of cycles that ended by raising an exception
    overflows,    \* number of those exceptions that had the token-limit shape
    exit_code,    \* exit status of the process: {} while it runs, then {0} or {1}
    agents,       \* the call of run_team_cycle that constructed the agents and team in use
    container,    \* the call of run_team_cycle whose Docker executor is up, 0 if none
    stamps,       \* for each message of the thread, its sequence number and its cycle
    work_dir,     \* the cycles whose Executor wrote files into work_dir (container ids)
    prompt_tokens,      \* LLMUsageTracker._prompt_tokens
    completion_tokens,  \* LLMUsageTracker._completion_tokens
    record,       \* the last log record handed to LLMUsageTracker.emit
    reported,     \* the Token Usage reports main() has printed, in order
    closed        \* number of calls of model_client.close()

usage == <<prompt_tokens, completion_tokens, record>>

report == <<reported, closed>>

vars == <<pc, messages, turns, result, reset_count, exc, sleepFor, status,
          cycles, resetCycles, cause, selected, failures, overflows,
          exit_code, agents, container, stamps, work_dir, usage, report>>

\* ---------------------------------------------------------------- bounds
MaxPrefix == 2        \* messages before the last one in an enumerated history
MaxMarked == 1        \* messages of one cycle whose content carries a marker
MaxRateRetries == 1   \* short-wait rate limits the service raises in one run
MaxTokens == 2        \* tokens of either kind the tracked LLM calls of one run use

\* ------------------------------------------------------ program constants
max_resets == 3
MaxTurns_short == 20 - 1
MaxTurns == 20
RetryThreshold == 60
SleepBuffer == 1
DefaultRetryAfter == 60
RateLimitStatus == 429
PayloadTooLargeStatus == 413

\* ---------------------------------------------------------------- names
Manager == "Manager"
Backend_Dev == "Backend_Dev"
Frontend_Dev == "Frontend_Dev"
QA_Engineer == "QA_Engineer"
Executor == "Executor"
TaskSource == "user"
Unknown == "Unknown"
None == "None"

Participants == <<Manager, Backend_Dev, Frontend_Dev, QA_Engineer, Executor>>

\* The substrings the program looks for in the content of a message.  A content
\* is modelled by the set of these substrings that occur in it.  FENCE stands
\* for the three-backquote code fence.
FENCE == "CODE_FENCE"
HTML == "<html>"
DOCTYPE == "<!DOCTYPE html>"
PASS == "PASS"
SENTINEL_other == "TASK_COMPLETE"
SENTINEL == "TERMINATE_TASK"

Contains(content, marker) == marker \in content

Msg(source, content) == [source |-> source, content |-> content]

\* ------------------------------------------------------------- selector
\* ["Backend_Dev", "Frontend_Dev", "QA_Engineer"], as the backward scan tests it
ScanSources == {Backend_Dev, Frontend_Dev, QA_Engineer}

\* ["Backend_Dev", "Frontend_Dev", "QA_Engineer"], as the code-block rule tests it
CodeAuthors_noFrontend == {Backend_Dev, QA_Engineer}
CodeAuthors_withManager == {Manager, Backend_Dev, Frontend_Dev, QA_Engineer}
CodeAuthors == {Backend_Dev, Frontend_Dev, QA_Engineer}

\* for m in reversed(messages[:-1]): if src in [...]: return src ; return "Manager"
\* i is the index of the message the scan looks at next, 0 when none is left
ScanBack_forward(msgs, i) ==
    IF \A k \in 1..i : msgs[k].source \notin ScanSources THEN Manager
    ELSE msgs[CHOOSE k \in 1..i : /\ msgs[k].source \in ScanSources
                                  /\ \A j \in 1..(k - 1) : msgs[j].source \notin ScanSources].source

RECURSIVE ScanBack(_, _)
ScanBack(msgs, i) ==
    IF i = 0 THEN Manager
    ELSE IF msgs[i].source \in ScanSources THEN msgs[i].source
    ELSE ScanBack(msgs, i - 1)

\* last_speaker == "Backend_Dev" and ("<html>" in content or "<!DOCTYPE html>" in content)
IsHandoff_htmlOnly(last_speaker, content) ==
    last_speaker = Backend_Dev /\ Contains(content, HTML)
IsHandoff_fenced(last_speaker, content) ==
    /\ last_speaker = Backend_Dev
    /\ Contains(content, FENCE)
    /\ (Contains(content, HTML) \/ Contains(content, DOCTYPE))
IsHandoff(last_speaker, content) ==
    last_speaker = Backend_Dev /\ (Contains(content, HTML) \/ Contains(content, DOCTYPE))

\* last_speaker == "QA_Engineer" and "PASS" in content
IsReviewPass_wrongRole(last_speaker, content) ==
    last_speaker = Manager /\ Contains(content, PASS)
IsReviewPass(last_speaker, content) ==
    last_speaker = QA_Engineer /\ Contains(content, PASS)

custom_selector(msgs) ==
    IF msgs = <<>> THEN None
    ELSE LET last_msg == msgs[Len(msgs)]
             last_speaker == last_msg.source
             content == last_msg.content
         IN  IF last_speaker = Executor
                THEN ScanBack(msgs, Len(msgs) - 1)
             ELSE IF last_speaker \in CodeAuthors /\ IsHandoff(last_speaker, content)
                THEN Frontend_Dev
             ELSE IF last_speaker \in CodeAuthors /\ Contains(content, FENCE)
                THEN Executor
             ELSE IF IsReviewPass(last_speaker, content)
                THEN Manager
             ELSE None

\* ------------------------------------------------------------ exceptions
NoExc == [kind |-> "none"]
\* The Retry-After entry of e.response.headers: the empty set when the header is
\* absent, else the one header value, a string of characters.
NoHeader == {}
Header(chars) == {chars}
HttpDate == <<"W", "e", "d", ",">>
RetryAfterHeaders ==
    {NoHeader, Header(HttpDate), Header(<<"0">>), Header(<<"1", "0">>),
     Header(<<"5", "9">>), Header(<<"6", "0">>), Header(<<"6", "1">>),
     Header(<<"7", "2", "0", "0">>)}

\* kind: the exception class; status_code and the Retry-After header of an
\* HttpResponseError; marker: "tokens_limit_reached" occurs in str(e).lower()
HttpErrors ==
    [kind : {"HttpResponseError"}, status_code : {RateLimitStatus},
     header : RetryAfterHeaders, marker : BOOLEAN]
    \cup [kind : {"HttpResponseError"}, status_code : {PayloadTooLargeStatus, 400},
          header : {NoHeader}, marker : BOOLEAN]
OtherErrors ==
    [kind : {"GroupChatError", "RuntimeError"}, status_code : {0},
     header : {NoHeader}, marker : BOOLEAN]
Exceptions == HttpErrors \cup OtherErrors

\* int(...) of a header value: the decimal value of a string of digits, and a
\* ValueError for anything else
DigitChars == {"0", "1", "2", "3", "4", "5", "6", "7", "8", "9"}
DigitValue(c) ==
    CASE c = "0" -> 0 [] c = "1" -> 1 [] c = "2" -> 2 [] c = "3" -> 3
      [] c = "4" -> 4 [] c = "5" -> 5 [] c = "6" -> 6 [] c = "7" -> 7
      [] c = "8" -> 8 [] c = "9" -> 9

IsInt(chars) == Len(chars) > 0 /\ \A i \in 1..Len(chars) : chars[i] \in DigitChars

RECURSIVE ParseInt(_)
ParseInt(chars) ==
    IF chars = <<>> THEN 0
    ELSE 10 * ParseInt(SubSeq(chars, 1, Len(chars) - 1)) + DigitValue(chars[Len(chars)])

\* int(e.response.headers.get("Retry-After", 60))
HeaderParses(h) == h = NoHeader \/ \A v \in h : IsInt(v)
RetryAfter(h) == IF h = NoHeader THEN DefaultRetryAfter ELSE ParseInt(CHOOSE v \in h : TRUE)

\* except HttpResponseError as e: the class of the exception itself decides
IsHttp_unwrap(e) == e.kind \in {"HttpResponseError", "GroupChatError"}
IsHttp(e) == e.kind = "HttpResponseError"
IsRateLimit(e) == IsHttp(e) /\ e.status_code = RateLimitStatus
ShortWait_inclusive(retry_after) == retry_after <= RetryThreshold
ShortWait(retry_after) == retry_after < RetryThreshold
SleepLength(retry_after) == retry_after + SleepBuffer
IsTokenLimit(e) == IsHttp(e) /\ (e.marker \/ e.status_code = PayloadTooLargeStatus)
ResetLimitReached_early(count) == count >= max_resets
ResetLimitReached(count) == count > max_resets

\* ------------------------------------------------------ one team cycle
NoResult == "none"
Plain == {}
MarkedContents == {{FENCE}, {FENCE, HTML}, {PASS}, {SENTINEL}}
TaskMessage == Msg(TaskSource, Plain)

MarkedCount(msgs) == Cardinality({i \in 1..Len(msgs) : msgs[i].content # Plain})

\* The contents the next turn may produce: at most MaxMarked messages of a cycle
\* carry a marker.
TurnContents(msgs) ==
    {Plain} \cup (IF MarkedCount(msgs) < MaxMarked THEN MarkedContents ELSE {})

PositionOf(name) == CHOOSE i \in 1..Len(Participants) : Participants[i] = name

\* The arbitration used when the selector defers: round-robin over the roster.
Fallback(msgs) ==
    LET last == msgs[Len(msgs)].source
    IN  IF \E i \in 1..Len(Participants) : Participants[i] = last
        THEN Participants[(PositionOf(last) % Len(Participants)) + 1]
        ELSE Participants[1]

NextSpeaker(msgs) ==
    LET choice == custom_selector(msgs)
    IN  IF choice = None THEN Fallback(msgs) ELSE choice

\* Short-wait rate limits raised so far in this run: each one started a cycle.
RateRetries == cycles - 1 - resetCycles

MayRaise(e) ==
    (IsRateLimit(e) /\ HeaderParses(e.header) /\ ShortWait(RetryAfter(e.header)))
        => RateRetries < MaxRateRetries

\* The executor a cycle starts: async with DockerCommandLineCodeExecutor(...)
NoContainer == 0

\* The agents, the team and its thread of messages, as run_team_cycle builds them
FirstStamp(cycle) == [seq |-> 0, cycle |-> cycle]

StartCycle_resetting ==
    /\ pc = "loop"
    /\ pc' = "cycle"
    /\ messages' = <<TaskMessage>>
    /\ stamps' = <<FirstStamp(cycles + 1)>>
    /\ agents' = cycles + 1
    /\ container' = cycles + 1
    /\ turns' = 0
    /\ result' = NoResult
    /\ cycles' = cycles + 1
    /\ resetCycles' = IF cause = "reset" THEN resetCycles + 1 ELSE resetCycles
    /\ reset_count' = 0
    /\ UNCHANGED <<exc, sleepFor, status, cause, selected, failures, overflows,
                   exit_code, work_dir, usage, report>>

StartCycle_sharedAgents ==
    /\ pc = "loop"
    /\ pc' = "cycle"
    /\ messages' = <<TaskMessage>>
    /\ stamps' = <<FirstStamp(cycles + 1)>>
    /\ agents' = IF cycles = 0 THEN 1 ELSE agents
    /\ container' = cycles + 1
    /\ turns' = 0
    /\ result' = NoResult
    /\ cycles' = cycles + 1
    /\ resetCycles' = IF cause = "reset" THEN resetCycles + 1 ELSE resetCycles
    /\ UNCHANGED <<reset_count, exc, sleepFor, status, cause, selected,
                   failures, overflows, exit_code, work_dir, usage, report>>

StartCycle_cleanDir ==
    /\ pc = "loop"
    /\ pc' = "cycle"
    /\ messages' = <<TaskMessage>>
    /\ stamps' = <<FirstStamp(cycles + 1)>>
    /\ agents' = cycles + 1
    /\ container' = cycles + 1
    /\ turns' = 0
    /\ result' = NoResult
    /\ cycles' = cycles + 1
    /\ resetCycles' = IF cause = "reset" THEN resetCycles + 1 ELSE resetCycles
    /\ work_dir' = {}
    /\ UNCHANGED <<reset_count, exc, sleepFor, status, cause, selected,
                   failures, overflows, exit_code, usage, report>>

\* while True: ... result = await run_team_cycle(...): a fresh team and thread
StartCycle ==
    /\ pc = "loop"
    /\ pc' = "cycle"
    /\ messages' = <<TaskMessage>>
    /\ stamps' = <<FirstStamp(cycles + 1)>>
    /\ agents' = cycles + 1
    /\ container' = cycles + 1
    /\ turns' = 0
    /\ result' = NoResult
    /\ cycles' = cycles + 1
    /\ resetCycles' = IF cause = "reset" THEN resetCycles + 1 ELSE resetCycles
    /\ UNCHANGED <<reset_count, exc, sleepFor, status, cause, selected,
                   failures, overflows, exit_code, work_dir, usage, report>>

\* One turn of the group chat with the given content: select the speaker, append
\* its message, check the termination text, count the turn and check the turn
\* cap.  When the chat stops, run_team_cycle leaves the async with block and the
\* executor is stopped.
Turn(content) ==
    /\ selected' = custom_selector(messages)
    /\ messages' = Append(messages, Msg(NextSpeaker(messages), content))
    /\ stamps' = Append(stamps, [seq |-> Len(messages), cycle |-> agents])
    /\ IF Contains(content, SENTINEL)
          THEN /\ result' = "Terminated"
               /\ pc' = "returned"
               /\ turns' = turns
               /\ container' = NoContainer
          ELSE /\ turns' = turns + 1
               /\ IF turns + 1 >= MaxTurns
                     THEN /\ result' = "TurnCapExhausted"
                          /\ pc' = "returned"
                          /\ container' = NoContainer
                     ELSE /\ result' = result
                          /\ pc' = pc
                          /\ container' = container

Dispatch ==
    /\ pc = "cycle"
    /\ \E content \in TurnContents(messages) : Turn(content)
    /\ UNCHANGED <<reset_count, exc, sleepFor, status, cycles, resetCycles, cause,
                   failures, overflows, exit_code, agents, work_dir, usage, report>>

\* A turn fails: the exception leaves run_team_cycle and its thread is dropped.
Raise ==
    /\ pc = "cycle"
    /\ \E e \in Exceptions :
          /\ MayRaise(e)
          /\ exc' = e
          /\ overflows' = IF IsHttp(e) /\ ~IsRateLimit(e) /\ IsTokenLimit(e)
                             THEN overflows + 1 ELSE overflows
    /\ failures' = failures + 1
    /\ pc' = "except"
    /\ messages' = <<>>
    /\ stamps' = <<>>
    /\ container' = NoContainer
    /\ turns' = 0
    /\ UNCHANGED <<result, reset_count, sleepFor, status, cycles, resetCycles, cause,
                   selected, exit_code, agents, work_dir, usage, report>>

\* ------------------------------------------------------------- main()
\* team.run returned: print the messages and "Task Completed Successfully", break
CycleCompleted ==
    /\ pc = "returned"
    /\ status' = "completed"
    /\ pc' = "exit"
    /\ UNCHANGED <<messages, turns, result, reset_count, exc, sleepFor, cycles,
                   resetCycles, cause, selected, failures, overflows,
                   exit_code, agents, container, stamps, work_dir, usage, report>>

\* 429 whose Retry-After is not an integer: int() raises inside the handler
RateLimitValueError ==
    /\ pc = "except"
    /\ IsRateLimit(exc)
    /\ ~HeaderParses(exc.header)
    /\ status' = "ValueError"
    /\ pc' = "crashed"
    /\ exit_code' = {1}
    /\ exc' = NoExc
    /\ UNCHANGED <<messages, turns, result, reset_count, sleepFor, cycles, resetCycles,
                   cause, selected, failures, overflows,
                   agents, container, stamps, work_dir, usage, report>>

RateLimitRetry_counting ==
    /\ pc = "except"
    /\ IsRateLimit(exc)
    /\ HeaderParses(exc.header)
    /\ ShortWait(RetryAfter(exc.header))
    /\ sleepFor' = SleepLength(RetryAfter(exc.header))
    /\ reset_count' = reset_count + 1
    /\ pc' = "sleeping"
    /\ exc' = NoExc
    /\ UNCHANGED <<messages, turns, result, status, cycles, resetCycles,
                   cause, selected, failures, overflows,
                   exit_code, agents, container, stamps, work_dir, usage, report>>

\* 429, retry_after < 60: time.sleep(retry_after + 1)
RateLimitRetry_noSleep ==
    /\ pc = "except"
    /\ IsRateLimit(exc)
    /\ HeaderParses(exc.header)
    /\ ShortWait(RetryAfter(exc.header))
    /\ sleepFor' = 0
    /\ pc' = "loop"
    /\ cause' = "rate"
    /\ exc' = NoExc
    /\ UNCHANGED <<messages, turns, result, reset_count, status, cycles, resetCycles,
                   selected, failures, overflows,
                   exit_code, agents, container, stamps, work_dir, usage, report>>

RateLimitRetry ==
    /\ pc = "except"
    /\ IsRateLimit(exc)
    /\ HeaderParses(exc.header)
    /\ ShortWait(RetryAfter(exc.header))
    /\ sleepFor' = SleepLength(RetryAfter(exc.header))
    /\ pc' = "sleeping"
    /\ exc' = NoExc
    /\ UNCHANGED <<messages, turns, result, reset_count, status, cycles, resetCycles,
                   cause, selected, failures, overflows,
                   exit_code, agents, container, stamps, work_dir, usage, report>>

\* time.sleep returns: continue
WakeUp ==
    /\ pc = "sleeping"
    /\ sleepFor' = 0
    /\ pc' = "loop"
    /\ cause' = "rate"
    /\ UNCHANGED <<messages, turns, result, reset_count, exc, status, cycles,
                   resetCycles, selected, failures, overflows,
                   exit_code, agents, container, stamps, work_dir, usage, report>>

\* 429, retry_after >= 60: "Wait time is too long", break
RateLimitAbort ==
    /\ pc = "except"
    /\ IsRateLimit(exc)
    /\ HeaderParses(exc.header)
    /\ ~ShortWait(RetryAfter(exc.header))
    /\ status' = "wait_too_long"
    /\ pc' = "exit"
    /\ exc' = NoExc
    /\ UNCHANGED <<messages, turns, result, reset_count, sleepFor, cycles, resetCycles,
                   cause, selected, failures, overflows,
                   exit_code, agents, container, stamps, work_dir, usage, report>>

\* tokens_limit_reached or 413: reset_count += 1, then break or continue
ContextReset ==
    /\ pc = "except"
    /\ IsHttp(exc) /\ ~IsRateLimit(exc)
    /\ IsTokenLimit(exc)
    /\ reset_count' = reset_count + 1
    /\ IF ResetLimitReached(reset_count + 1)
          THEN status' = "max_resets" /\ pc' = "exit" /\ cause' = cause
          ELSE status' = status /\ pc' = "loop" /\ cause' = "reset"
    /\ exc' = NoExc
    /\ UNCHANGED <<messages, turns, result, sleepFor, cycles, resetCycles, selected,
                   failures, overflows,
                   exit_code, agents, container, stamps, work_dir, usage, report>>

\* any other HttpResponseError: "Unhandled Azure API Error", break
UnhandledApiError ==
    /\ pc = "except"
    /\ IsHttp(exc) /\ ~IsRateLimit(exc)
    /\ ~IsTokenLimit(exc)
    /\ status' = "api_error"
    /\ pc' = "exit"
    /\ exc' = NoExc
    /\ UNCHANGED <<messages, turns, result, reset_count, sleepFor, cycles, resetCycles,
                   cause, selected, failures, overflows,
                   exit_code, agents, container, stamps, work_dir, usage, report>>

UnexpectedError_retry ==
    /\ pc = "except"
    /\ ~IsHttp(exc)
    /\ status' = IF exc.kind = "GroupChatError" THEN "group_chat_error"
                                                ELSE "unexpected_error"
    /\ pc' = IF exc.kind = "GroupChatError" THEN "loop" ELSE "exit"
    /\ exc' = NoExc
    /\ UNCHANGED <<messages, turns, result, reset_count, sleepFor, cycles, resetCycles,
                   cause, selected, failures, overflows,
                   exit_code, agents, container, stamps, work_dir, usage, report>>

\* except Exception: a GroupChatError, or any other error: break
UnexpectedError ==
    /\ pc = "except"
    /\ ~IsHttp(exc)
    /\ status' = IF exc.kind = "GroupChatError" THEN "group_chat_error"
                                                ELSE "unexpected_error"
    /\ pc' = "exit"
    /\ exc' = NoExc
    /\ UNCHANGED <<messages, turns, result, reset_count, sleepFor, cycles, resetCycles,
                   cause, selected, failures, overflows,
                   exit_code, agents, container, stamps, work_dir, usage, report>>

\* print(Prompt Tokens / Completion Tokens / Total Tokens)
UsageReport ==
    [prompt |-> prompt_tokens, completion |-> completion_tokens,
     total |-> prompt_tokens + completion_tokens]

\* after the loop: the token usage is printed and the client closed
Finish ==
    /\ pc = "exit"
    /\ reported' = Append(reported, UsageReport)
    /\ closed' = closed + 1
    /\ pc' = "done"
    /\ exit_code' = {0}
    /\ UNCHANGED <<messages, turns, result, reset_count, exc, sleepFor, status, cycles,
                   resetCycles, cause, selected, failures, overflows,
                   agents, container, stamps, work_dir, usage>>

\* a log record that is no LLMCallEvent
OtherRecord == [kind |-> "LogRecord", prompt_tokens |-> 0, completion_tokens |-> 0]

Init ==
    /\ pc = "loop"
    /\ messages = <<>>
    /\ turns = 0
    /\ result = NoResult
    /\ reset_count = 0
    /\ exc = NoExc
    /\ sleepFor = 0
    /\ status = "running"
    /\ cycles = 0
    /\ resetCycles = 0
    /\ cause = "first"
    /\ selected = "unset"
    /\ failures = 0
    /\ overflows = 0
    /\ exit_code = {}
    /\ agents = 0
    /\ container = NoContainer
    /\ stamps = <<>>
    /\ work_dir = {}
    /\ prompt_tokens = 0
    /\ completion_tokens = 0
    /\ record = OtherRecord
    /\ reported = <<>>
    /\ closed = 0

Next ==
    \/ StartCycle
    \/ Dispatch
    \/ Raise
    \/ CycleCompleted
    \/ RateLimitValueError
    \/ RateLimitRetry
    \/ WakeUp
    \/ RateLimitAbort
    \/ ContextReset
    \/ UnhandledApiError
    \/ UnexpectedError
    \/ Finish

Spec == Init /\ [][Next]_vars

\* ------------------------------------- a run with rate limits without end
\* The service may answer with a short-wait rate limit any number of times.  The
\* counters that only describe the run (cycles, failures) stop counting once
\* MaxRateRetries retries have been counted, so that the run stays finite-state.
Saturated == RateRetries >= MaxRateRetries

ShortRateLimits ==
    {e \in Exceptions :
        IsRateLimit(e) /\ HeaderParses(e.header) /\ ShortWait(RetryAfter(e.header))}

\* await run_team_cycle(...) raises one more short-wait rate limit
RaiseAgain ==
    /\ pc = "cycle"
    /\ Saturated
    /\ \E e \in ShortRateLimits : exc' = e
    /\ pc' = "except"
    /\ messages' = <<>>
    /\ stamps' = <<>>
    /\ container' = NoContainer
    /\ turns' = 0
    /\ UNCHANGED <<result, reset_count, sleepFor, status, cycles, resetCycles, cause,
                   selected, failures, overflows, exit_code, agents, work_dir, usage, report>>

\* while True: ... the cycle after one more rate-limit retry
StartCycleAgain ==
    /\ pc = "loop"
    /\ cause = "rate" /\ Saturated
    /\ pc' = "cycle"
    /\ messages' = <<TaskMessage>>
    /\ stamps' = <<FirstStamp(cycles)>>
    /\ agents' = cycles
    /\ container' = cycles
    /\ turns' = 0
    /\ result' = NoResult
    /\ UNCHANGED <<reset_count, exc, sleepFor, status, cycles, resetCycles, cause,
                   selected, failures, overflows, exit_code, work_dir, usage, report>>

StartCycleCounted ==
    /\ ~(cause = "rate" /\ Saturated)
    /\ StartCycle

\* One turn of a cycle in which no message asks for code to be run or reviewed:
\* the content is plain text or the termination phrase.
PlainDispatch ==
    /\ pc = "cycle"
    /\ \E content \in TurnContents(messages) \cap {Plain, {SENTINEL}} : Turn(content)
    /\ UNCHANGED <<reset_count, exc, sleepFor, status, cycles, resetCycles, cause,
                   failures, overflows, exit_code, agents, work_dir, usage, report>>

LiveNext ==
    \/ StartCycleCounted
    \/ StartCycleAgain
    \/ PlainDispatch
    \/ Raise
    \/ RaiseAgain
    \/ CycleCompleted
    \/ RateLimitValueError
    \/ RateLimitRetry
    \/ WakeUp
    \/ RateLimitAbort
    \/ ContextReset
    \/ UnhandledApiError
    \/ UnexpectedError
    \/ Finish

\* asyncio.run(main()) runs main() to its end: a step that can be taken is taken.
LiveSpec == Init /\ [][LiveNext]_vars /\ WF_vars(LiveNext)

\* ------------------------------------- a run with its resources tracked
\* The replies of a cycle that follows the workflow of the prompts: the Manager
\* plans, each developer writes code once and then reports in plain text, the
\* QA engineer tests with code and then passes, the Manager then ends the task.
HasSpoken(msgs, name) == \E i \in 1..Len(msgs) : msgs[i].source = name
HasPassed(msgs) == \E i \in 1..Len(msgs) : Contains(msgs[i].content, PASS)

ScriptedContent(msgs) ==
    LET speaker == NextSpeaker(msgs)
    IN  IF speaker = Manager
           THEN (IF HasPassed(msgs) THEN {SENTINEL} ELSE Plain)
        ELSE IF speaker \in {Backend_Dev, Frontend_Dev}
           THEN (IF HasSpoken(msgs, speaker) THEN Plain ELSE {FENCE})
        ELSE IF speaker = QA_Engineer
           THEN (IF HasSpoken(msgs, speaker) THEN {PASS} ELSE {FENCE})
        ELSE Plain

\* The Executor runs the code blocks of the message before its turn, in work_dir.
ExecutesCode(msgs) ==
    NextSpeaker(msgs) = Executor /\ Contains(msgs[Len(msgs)].content, FENCE)

\* The records the logger hands to the tracker during a turn.
LLMCallEvent(p, c) == [kind |-> "LLMCallEvent", prompt_tokens |-> p, completion_tokens |-> c]
LogRecords == {OtherRecord, LLMCallEvent(1, 0), LLMCallEvent(1, 1)}

MayEmit(r) ==
    /\ prompt_tokens + r.prompt_tokens <= MaxTokens
    /\ completion_tokens + r.completion_tokens <= MaxTokens

\* LLMUsageTracker.emit
emit_assign(r) ==
    /\ record' = r
    /\ IF r.kind = "LLMCallEvent"
          THEN /\ prompt_tokens' = r.prompt_tokens
               /\ completion_tokens' = r.completion_tokens
          ELSE UNCHANGED <<prompt_tokens, completion_tokens>>

emit(r) ==
    /\ record' = r
    /\ IF r.kind = "LLMCallEvent"
          THEN /\ prompt_tokens' = prompt_tokens + r.prompt_tokens
               /\ completion_tokens' = completion_tokens + r.completion_tokens
          ELSE UNCHANGED <<prompt_tokens, completion_tokens>>

\* One turn, with the log record it emits and the files the Executor writes.
MeteredDispatch ==
    /\ pc = "cycle"
    /\ Turn(ScriptedContent(messages))
    /\ \E r \in LogRecords : MayEmit(r) /\ emit(r)
    /\ work_dir' = IF ExecutesCode(messages) THEN work_dir \cup {container} ELSE work_dir
    /\ UNCHANGED <<reset_count, exc, sleepFor, status, cycles, resetCycles, cause,
                   failures, overflows, exit_code, agents, report>>

ResourceNext ==
    \/ StartCycle
    \/ MeteredDispatch
    \/ Raise
    \/ CycleCompleted
    \/ RateLimitValueError
    \/ RateLimitRetry
    \/ WakeUp
    \/ RateLimitAbort
    \/ ContextReset
    \/ UnhandledApiError
    \/ UnexpectedError
    \/ Finish

ResourceSpec == Init /\ [][ResourceNext]_vars

\* ------------------------------------- the selector on enumerated histories
PrefixAuthors == {Manager, Backend_Dev, Frontend_Dev, QA_Engineer, Executor, TaskSource}
LastAuthors == PrefixAuthors \cup {Unknown}
PrefixContents == {Plain, {FENCE, HTML, PASS}}
LastContents == SUBSET {FENCE, HTML, DOCTYPE, PASS}

SeqsUpTo(S, n) == UNION {[1..k -> S] : k \in 0..n}

Histories ==
    {<<>>} \cup
    {prefix \o <<Msg(a, c)>> :
        prefix \in SeqsUpTo([source : PrefixAuthors, content : PrefixContents], MaxPrefix),
        a \in LastAuthors, c \in LastContents}

SelInit ==
    /\ pc = "select"
    /\ messages \in Histories
    /\ turns = 0
    /\ result = NoResult
    /\ reset_count = 0
    /\ exc = NoExc
    /\ sleepFor = 0
    /\ status = "running"
    /\ cycles = 0
    /\ resetCycles = 0
    /\ cause = "first"
    /\ selected = "unset"
    /\ failures = 0
    /\ overflows = 0
    /\ exit_code = {}
    /\ agents = 0
    /\ container = NoContainer
    /\ stamps = <<>>
    /\ work_dir = {}
    /\ prompt_tokens = 0
    /\ completion_tokens = 0
    /\ record = OtherRecord
    /\ reported = <<>>
    /\ closed = 0

\* one call custom_selector(messages)
ApplySelector ==
    /\ pc = "select"
    /\ selected' = custom_selector(messages)
    /\ pc' = "selected"
    /\ UNCHANGED <<messages, turns, result, reset_count, exc, sleepFor, status, cycles,
                   resetCycles, cause,
                   failures, overflows,
                   exit_code, agents, container, stamps, work_dir, usage, report>>

SelNext == ApplySelector

SelSpec == SelInit /\ [][SelNext]_vars

\* ================================================================ claims
Last(msgs) == msgs[Len(msgs)]
Selected == pc = "selected" /\ messages # <<>>
HasHtmlMarker(content) == "<html>" \in content \/ "<!DOCTYPE html>" \in content

\* The indices, before the last message, of the messages authored by a
\* developer or the QA engineer.
EarlierDevIndices ==
    {i \in 1..(Len(messages) - 1) :
        messages[i].source \in {"Backend_Dev", "Frontend_Dev", "QA_Engineer"}}

Greatest(S) == CHOOSE i \in S : \A j \in S : j <= i

\* C1: when the last message is the Executor's, the selector returns the author
\* of the most recent earlier Backend_Dev, Frontend_Dev or QA_Engineer message,
\* whatever the contents, and returns Manager exactly when there is none.
C1_LoopBack ==
    (Selected /\ Last(messages).source = "Executor") =>
        /\ EarlierDevIndices # {} =>
               selected = messages[Greatest(EarlierDevIndices)].source
        /\ selected = "Manager" <=> EarlierDevIndices = {}

\* An Executor message after two different developers, the nearer one with
\* markers in its content: the nearer one is selected.
C1_Witness ==
    /\ Selected /\ Len(messages) = 3
    /\ messages[1].source = "Backend_Dev"
    /\ messages[2].source = "QA_Engineer" /\ messages[2].content # {}
    /\ messages[3].source = "Executor"
    /\ selected = "QA_Engineer"

\* C2: a Backend_Dev or Frontend_Dev message with a code fence and no HTML
\* marker is followed by the Executor.
C2_ForcedExecution ==
    (/\ Selected
     /\ Last(messages).source \in {"Backend_Dev", "Frontend_Dev"}
     /\ FENCE \in Last(messages).content
     /\ ~HasHtmlMarker(Last(messages).content))
        => selected = "Executor"

C2_Witness ==
    /\ Selected
    /\ Last(messages).source = "Frontend_Dev"
    /\ Last(messages).content = {FENCE, "PASS"}
    /\ selected = "Executor"

\* C3: a Backend_Dev message with a code fence and an HTML marker is followed
\* by Frontend_Dev, not by the Executor.
C3_ArtifactHandoff ==
    (/\ Selected
     /\ Last(messages).source = "Backend_Dev"
     /\ FENCE \in Last(messages).content
     /\ HasHtmlMarker(Last(messages).content))
        => selected = "Frontend_Dev" /\ selected # "Executor"

C3_Witness ==
    /\ Selected
    /\ Last(messages).source = "Backend_Dev"
    /\ Last(messages).content = {FENCE, "<!DOCTYPE html>"}
    /\ selected = "Frontend_Dev"

\* C4 as stated: a QA_Engineer message with the pass marker is followed by the
\* Manager, with or without a code fence.
C4_Original ==
    (/\ Selected
     /\ Last(messages).source = "QA_Engineer"
     /\ "PASS" \in Last(messages).content)
        => selected = "Manager"

\* C4 as amended: a QA_Engineer message with the pass marker is followed by the
\* Manager when it has no code fence, and by the Executor when it has one.
C4_ReviewPass ==
    (/\ Selected
     /\ Last(messages).source = "QA_Engineer"
     /\ "PASS" \in Last(messages).content)
        => selected = IF FENCE \in Last(messages).content THEN "Executor" ELSE "Manager"

C4_Witness ==
    /\ Selected
    /\ Last(messages).source = "QA_Engineer"
    /\ Last(messages).content = {"PASS"}
    /\ selected = "Manager"

\* ------------------------------------------------ claims about main()
\* The exception main() is handling is a 429 whose Retry-After gives a number
\* of seconds (the header value, or 60 when the header is absent).
HandlingRateLimit ==
    /\ pc = "except"
    /\ exc.kind = "HttpResponseError" /\ exc.status_code = 429
    /\ HeaderParses(exc.header)

\* The exception main() is handling is an HttpResponseError, not a 429, with
\* status 413 or the tokens_limit_reached text.
HandlingOverflow ==
    /\ pc = "except"
    /\ exc.kind = "HttpResponseError" /\ exc.status_code # 429
    /\ (exc.status_code = 413 \/ exc.marker)

\* The exception main() is handling is of neither shape.
HandlingFatal ==
    /\ pc = "except"
    /\ ~(exc.kind = "HttpResponseError" /\ exc.status_code = 429)
    /\ ~HandlingOverflow

Stopped == pc \in {"exit", "done", "crashed"}

\* Once main() has left its loop it stays out of it: no sleep, no new cycle.
StaysStopped ==
    Stopped => (Stopped' /\ cycles' = cycles /\ sleepFor' = 0 /\ reset_count' = reset_count)

\* C5: a rate limit of fewer than 60 seconds makes main() sleep that many
\* seconds plus one and then start exactly one fresh cycle; one of 60 seconds
\* or more makes it stop at once, with no sleep and no further cycle.
C5_RateLimitDecision ==
    [][/\ HandlingRateLimit =>
            IF RetryAfter(exc.header) < 60
               THEN /\ pc' = "sleeping"
                    /\ sleepFor' = RetryAfter(exc.header) + 1
                    /\ cycles' = cycles
               ELSE /\ pc' = "exit"
                    /\ status' = "wait_too_long"
                    /\ sleepFor' = 0
                    /\ cycles' = cycles
       /\ pc = "sleeping" => (pc' = "loop" /\ cycles' = cycles)
       /\ pc = "loop" => (/\ pc' = "cycle"
                          /\ cycles' = cycles + 1
                          /\ messages' = <<TaskMessage>> /\ turns' = 0)
       /\ StaysStopped
      ]_vars

\* A retry after a short rate limit: the second cycle runs on a thread of
\* its own.
C5_Witness ==
    /\ pc = "cycle" /\ cause = "rate" /\ cycles = 2
    /\ Len(messages) = 2

\* Every cycle of the run that has failed so far failed with a context overflow.
OnlyOverflows == failures = overflows

\* C6: when every cycle fails with a context overflow, main() starts three
\* restart cycles, four cycles in all, and stops at the fourth failure with the
\* reset limit reached; no fifth cycle starts.
C6_ResetBound ==
    /\ OnlyOverflows => (cycles <= 4 /\ failures <= 4)
    /\ (OnlyOverflows /\ failures \in 1..3 /\ pc # "except") =>
           (/\ reset_count = failures
            /\ status \in {"running", "completed"}
            /\ (pc = "loop" /\ cycles = failures) \/ cycles = failures + 1)
    /\ (OnlyOverflows /\ failures = 4 /\ pc # "except") =>
           (Stopped /\ status = "max_resets" /\ cycles = 4 /\ resetCycles = 3)

C6_Witness ==
    /\ OnlyOverflows /\ failures = 4
    /\ pc = "done" /\ status = "max_resets" /\ cycles = 4

\* C7: reset_count never decreases and never exceeds max_resets + 1, at most
\* max_resets cycles start after a context overflow, and starting a cycle
\* leaves reset_count as it was.
C7_GlobalResetBound ==
    [][/\ reset_count' >= reset_count
       /\ reset_count' <= max_resets + 1
       /\ resetCycles' <= max_resets
       /\ pc = "loop" => reset_count' = reset_count
      ]_vars

\* Rate limits and context overflows interleaved: a cycle started after a rate
\* limit runs with the count of two earlier resets.
C7_Witness ==
    /\ pc = "cycle" /\ cause = "rate"
    /\ reset_count = 2 /\ resetCycles = 2 /\ cycles = 4

\* C8: handling a rate limit, on either branch, leaves reset_count unchanged
\* and never ends the run with the reset limit: reset_count counts context
\* overflows only.
C8_RateLimitFrame ==
    [][/\ (pc = "except" /\ exc.kind = "HttpResponseError" /\ exc.status_code = 429) =>
            (reset_count' = reset_count /\ status' # "max_resets")
       /\ pc = "sleeping" => reset_count' = reset_count
       /\ status' = "max_resets" => resetCycles' = max_resets
       /\ reset_count' <= resetCycles' + 1
      ]_vars

\* The reset limit is reached in a run that also retried after a rate limit.
C8_Witness ==
    /\ status = "max_resets" /\ cycles = 5 /\ resetCycles = 3
    /\ reset_count = 4

\* C9: an error that is neither a rate limit nor a context overflow stops
\* main() at once: no sleep, reset_count unchanged, no further cycle.
C9_FatalAborts ==
    [][/\ HandlingFatal =>
            /\ pc' = "exit"
            /\ status' \in {"api_error", "group_chat_error", "unexpected_error"}
            /\ sleepFor' = 0
            /\ reset_count' = reset_count
            /\ cycles' = cycles
       /\ StaysStopped
      ]_vars

\* A GroupChatError that carries the token-limit text, after one context reset.
C9_Witness ==
    /\ pc = "done" /\ status = "group_chat_error"
    /\ reset_count = 1 /\ cycles = 2

NoSentinel(msgs) == \A i \in 1..Len(msgs) : "TERMINATE_TASK" \notin msgs[i].content

\* C10: a cycle in which no message has the sentinel and no turn fails makes
\* exactly 20 turns and returns with the turn cap exhausted; no turn follows,
\* and main() leaves its loop without starting another cycle.
C10_TurnCap ==
    [][/\ pc' = "cycle" => (Len(messages') - 1 = turns' /\ turns' < 20)
       /\ (pc' = "returned" /\ NoSentinel(messages')) =>
            (result' = "TurnCapExhausted" /\ Len(messages') = 1 + 20)
       /\ result' = "TurnCapExhausted" =>
            (pc' \in {"returned", "exit", "done"} /\ NoSentinel(messages')
             /\ Len(messages') = 1 + 20)
       /\ pc = "returned" =>
            (pc' = "exit" /\ messages' = messages /\ cycles' = cycles)
       /\ pc \in {"exit", "done"} => (messages' = messages /\ cycles' = cycles)
      ]_vars

C10_Witness ==
    /\ pc = "done" /\ result = "TurnCapExhausted"
    /\ Len(messages) = 21 /\ NoSentinel(messages)
    /\ cycles = 1

\* C11: the cycle returns Terminated right after the first message that has
\* TERMINATE_TASK in its content, no turn follows that message, and a cycle
\* without such a message never returns Terminated.
C11_SentinelTermination ==
    [][/\ pc' = "cycle" => NoSentinel(messages')
       /\ result' = "Terminated" =>
            /\ pc' \in {"returned", "exit", "done"}
            /\ "TERMINATE_TASK" \in Last(messages').content
            /\ NoSentinel(SubSeq(messages', 1, Len(messages') - 1))
       /\ (pc' = "returned" /\ ~NoSentinel(messages')) => result' = "Terminated"
       /\ pc \in {"returned", "exit", "done"} =>
            (messages' = messages /\ result' = result)
      ]_vars

\* The sentinel arrives in the fourth turn of a cycle.
C11_Witness ==
    /\ pc = "returned" /\ result = "Terminated"
    /\ Len(messages) = 5 /\ "TERMINATE_TASK" \in Last(messages).content

\* C12: what main() reports tells the terminal outcomes apart: a cycle that ran
\* into the turn cap is not reported as completed, and the exit status is 0 for
\* a completed task and for nothing else.
C12_Distinguishable ==
    pc = "done" =>
        /\ result = "TurnCapExhausted" => status # "completed"
        /\ exit_code = {0} <=> (status = "completed" /\ result = "Terminated")

\* C14 as stated: no file written by the Executor in one cycle is there for the
\* Executor of a later cycle, so while a cycle runs the working directory holds
\* files of that cycle's container only.
C14_Original ==
    pc = "cycle" => work_dir \subseteq {container}

\* C14, amended: the container is scoped to one cycle (it exists exactly while
\* the cycle runs, and each cycle gets a new one), but the working directory is
\* made once before the loop and handed to every cycle: only an Executor turn
\* that runs code changes it, by adding files, and no restart removes a file, so
\* the files of earlier cycles are there for the Executor of every later cycle.
C14_ScopedContainer ==
    [][/\ (pc' = "cycle") <=> (container' # NoContainer)
       /\ (pc = "loop" /\ pc' = "cycle") =>
             (container' = cycles' /\ \A c \in work_dir : c < container')
       /\ (pc = "cycle" /\ pc' = "cycle") => container' = container
       /\ work_dir \subseteq work_dir'
       /\ work_dir' # work_dir =>
             (pc = "cycle" /\ ExecutesCode(messages) /\ work_dir' = work_dir \cup {container})
      ]_vars

C14_Witness ==
    /\ pc = "cycle"
    /\ cycles = 2
    /\ work_dir = {1, 2}
    /\ Last(messages).source = Executor

\* C15: every cycle the supervisor starts, whatever caused it, begins with newly
\* built agents and a thread holding the task message alone, numbered zero; the
\* messages of a running cycle are numbered 0, 1, 2, ... in order and every one
\* of them was appended in this cycle by this cycle's agents, so the history
\* given to the selector never holds a message of an earlier cycle.
C15_FreshCycle ==
    [][/\ (pc = "loop" /\ pc' = "cycle") =>
             /\ messages' = <<[source |-> "user", content |-> {}]>>
             /\ stamps' = <<[seq |-> 0, cycle |-> cycles + 1]>>
             /\ agents' = cycles + 1
             /\ cycles' = cycles + 1
             /\ \A c \in 1..cycles : agents' # c
       /\ pc' = "cycle" =>
             /\ Len(stamps') = Len(messages')
             /\ \A i \in 1..Len(stamps') :
                   stamps'[i].seq = i - 1 /\ stamps'[i].cycle = cycles'
       /\ (pc = "cycle" /\ pc' \in {"cycle", "returned"}) =>
             /\ SubSeq(messages', 1, Len(messages)) = messages
             /\ Len(messages') = Len(messages) + 1
             /\ Last(stamps') = [seq |-> Len(messages), cycle |-> cycles]
      ]_vars

C15_Witness ==
    /\ pc = "cycle"
    /\ cycles = 3
    /\ cause = "rate"
    /\ resetCycles = 1
    /\ Len(messages) = 3
    /\ stamps[3] = [seq |-> 2, cycle |-> 3]

\* C16: the usage counters only grow: a step changes them only when the record
\* handed to the tracker is an LLM call event, and then by exactly the token
\* counts of that event; the end of a cycle, a failure, a retry, a reset and the
\* final report leave them as they are, and nothing sets them back to zero.
C16_AppendOnly ==
    [][/\ prompt_tokens' >= prompt_tokens
       /\ completion_tokens' >= completion_tokens
       /\ <<prompt_tokens', completion_tokens'>> # <<prompt_tokens, completion_tokens>> =>
             /\ pc = "cycle"
             /\ record'.kind = "LLMCallEvent"
             /\ prompt_tokens' = prompt_tokens + record'.prompt_tokens
             /\ completion_tokens' = completion_tokens + record'.completion_tokens
       /\ (pc = "cycle" /\ pc' \in {"cycle", "returned"} /\ record'.kind = "LLMCallEvent") =>
             /\ prompt_tokens' = prompt_tokens + record'.prompt_tokens
             /\ completion_tokens' = completion_tokens + record'.completion_tokens
       /\ (pc # "cycle" \/ pc' = "except") =>
             <<prompt_tokens', completion_tokens'>> = <<prompt_tokens, completion_tokens>>
      ]_vars

C16_Witness ==
    /\ pc = "done"
    /\ cycles = 3
    /\ reset_count = 1
    /\ prompt_tokens = 2
    /\ completion_tokens = 1

\* C17 as stated: a Backend_Dev message with an HTML marker and no code fence
\* is answered with None (defer), not with Frontend_Dev or Executor.
C17_Original ==
    (/\ Selected
     /\ Last(messages).source = "Backend_Dev"
     /\ HasHtmlMarker(Last(messages).content)
     /\ "CODE_FENCE" \notin Last(messages).content)
        => selected = "None"

\* C17, amended: the handoff does not need a code fence: a Backend_Dev message
\* with an HTML marker and no code fence is followed by Frontend_Dev; only the
\* forced execution needs the fence, so without one the Executor is never chosen
\* after a developer or the QA engineer.
C17_HandoffWithoutFence ==
    (/\ Selected
     /\ Last(messages).source \in {"Backend_Dev", "Frontend_Dev", "QA_Engineer"}
     /\ "CODE_FENCE" \notin Last(messages).content)
        => /\ selected # "Executor"
           /\ (Last(messages).source = "Backend_Dev" /\ HasHtmlMarker(Last(messages).content))
                 => selected = "Frontend_Dev"

C17_Witness ==
    /\ Selected
    /\ Last(messages).source = "Backend_Dev"
    /\ Last(messages).content = {"<html>"}
    /\ selected = "Frontend_Dev"

\* C18: the selector answers None (defer) for the empty history, for a last
\* author that is the Manager, the task source or unknown, for a developer
\* message with no code fence (and, from Backend_Dev, no HTML marker), and for a
\* QA_Engineer message with neither a code fence nor the pass marker; in every
\* other case it answers with a member of the roster.
C18_Defaults ==
    pc = "selected" =>
        LET Defers ==
              \/ messages = <<>>
              \/ /\ messages # <<>>
                 /\ LET author == Last(messages).source
                        content == Last(messages).content
                    IN  \/ author \in {"Manager", "user", "Unknown"}
                        \/ /\ author = "Backend_Dev"
                           /\ "CODE_FENCE" \notin content
                           /\ ~HasHtmlMarker(content)
                        \/ /\ author = "Frontend_Dev"
                           /\ "CODE_FENCE" \notin content
                        \/ /\ author = "QA_Engineer"
                           /\ "CODE_FENCE" \notin content
                           /\ "PASS" \notin content
        IN  IF Defers
               THEN selected = "None"
               ELSE selected \in {"Manager", "Backend_Dev", "Frontend_Dev", "QA_Engineer", "Executor"}

C18_Witness ==
    /\ pc = "selected"
    /\ Len(messages) = 3
    /\ Last(messages).source = "Manager"
    /\ Last(messages).content = {"CODE_FENCE", "<html>", "PASS"}
    /\ selected = "None"

\* C19: an HttpResponseError with status 429 is always handled as a rate limit,
\* with or without the tokens_limit_reached text: main() either sleeps for a
\* retry or stops with the wait too long, and reset_count stays as it was; a
\* context reset is counted only for an HttpResponseError that is not a 429 and
\* has status 413 or the text.
C19_Precedence ==
    [][/\ (pc = "except" /\ exc.kind = "HttpResponseError" /\ exc.status_code = 429) =>
             /\ reset_count' = reset_count
             /\ \/ pc' = "sleeping" /\ RetryAfter(exc.header) < 60
                \/ pc' = "exit" /\ status' = "wait_too_long" /\ RetryAfter(exc.header) >= 60
       /\ (reset_count' # reset_count \/ status' = "max_resets") =>
             /\ pc = "except"
             /\ exc.kind = "HttpResponseError"
             /\ exc.status_code # 429
             /\ (exc.status_code = 413 \/ exc.marker)
      ]_vars

\* C20: an exception that is not an HttpResponseError stops main() even when it
\* carries the tokens_limit_reached text (a GroupChatError wrapping the
\* overflow, say): reset_count stays as it was and no further cycle starts; a
\* context reset, counted or started, comes only from an HttpResponseError.
C20_WrappedOverflowFatal ==
    [][/\ (pc = "except" /\ exc.kind # "HttpResponseError" /\ exc.marker) =>
             /\ pc' = "exit"
             /\ status' = IF exc.kind = "GroupChatError"
                             THEN "group_chat_error" ELSE "unexpected_error"
             /\ reset_count' = reset_count
             /\ cycles' = cycles
             /\ cause' = cause
       /\ (reset_count' # reset_count \/ (cause' = "reset" /\ cause # "reset")) =>
             (pc = "except" /\ exc.kind = "HttpResponseError")
       /\ pc = "exit" => (pc' = "done" /\ cycles' = cycles /\ resetCycles' = resetCycles)
      ]_vars

\* A run stopped by an exception that is not an HttpResponseError in its third
\* cycle, after two context resets.
C20_Witness ==
    /\ pc = "exit"
    /\ status = "unexpected_error"
    /\ reset_count = 2
    /\ cycles = 3
    /\ failures = 3
    /\ overflows = 2

\* C13 as stated: every run of main() eventually reaches a terminal outcome
\* (it leaves the loop, after a success, a turn cap or an abort), whatever the
\* service answers.
C13_Original ==
    <>Stopped

\* C13, amended: nothing bounds the retries after rate limits of fewer than 60
\* seconds, so a run ends only if the service stops answering with them: every
\* run either sleeps for a rate-limit retry again and again without end, or
\* eventually leaves the loop and, once out, stays out.
C13_Terminates ==
    ([]<>(pc = "sleeping")) \/ <>[]Stopped

C13_Witness ==
    /\ pc = "done"
    /\ cause = "rate"
    /\ Saturated
    /\ status = "max_resets"

\* C21: however main() ends, the final usage counters are reported and the
\* model client is closed exactly once, after the last cycle: nothing is
\* reported or closed while main() is still in its loop, and once main() has
\* ended there is one report, of the counters as they stand, and one close.
C21_FinalReport ==
    /\ pc \notin {"done", "crashed"} => (reported = <<>> /\ closed = 0)
    /\ pc \in {"done", "crashed"} =>
          /\ reported = <<[prompt |-> prompt_tokens, completion |-> completion_tokens,
                           total |-> prompt_tokens + completion_tokens]>>
          /\ closed = 1

====
